---- MODULE Spec2Model ----
(***************************************************************************)
(* ttrpc-rust, asynchronous transport core:                                *)
(*   src/asynchronous/connection.rs  Connection (write loop, read loops)   *)
(*   src/asynchronous/fdstore.rs     MessageStore, SockMessage             *)
(***************************************************************************)
EXTENDS Integers, Sequences, FiniteSets, TLC

\* fdstore.rs:9
SOCK_NAME_LEN == 36

\* ---- bounds of the model ----
MaxId == 1          \* message ids handed to the store's API are 0..MaxId
MaxOps == 3         \* API calls of one caller in the sequential store runs
MaxEnvelopes == 3   \* envelopes WriterDelegate::recv hands out before it returns None
MaxFrames == 2      \* frames read on one identity
MaxRuns == 2        \* runs of the read loop on one identity (restarts + 1)
MaxInserts == 2     \* inserts of one connection in the concurrent store runs
MaxCalls == 1       \* inserts of one clone where every call is followed to its return
MaxFaultyDumps == 1 \* dumps with a failing I/O call in one run of the read loop

\* ---- data ----
\* a connection identity: SOCK_NAME_LEN bytes ("A"*36, "B"*36)
NameA == [i \in 1..SOCK_NAME_LEN |-> 65]
NameB == [i \in 1..SOCK_NAME_LEN |-> 66]
Names == {NameA, NameB}

\* GenMessage: opaque to this code; a payload of bytes
Msg1 == <<1>>
Msg2 == <<2, 3>>
Messages == {Msg1, Msg2}

Ids == 0..MaxId

\* fdstore.rs:18 SockMessage
SockMessage(name, id, m) == [sock_name |-> name, id |-> id, message |-> m]

RECURSIVE Concat(_)
Concat(ss) == IF ss = <<>> THEN <<>> ELSE Head(ss) \o Concat(Tail(ss))

SeqDrop(s, n) == SubSeq(s, n + 1, Len(s))

Range(s) == {s[i] : i \in 1..Len(s)}
IdsOfSeq(msgs) == {msgs[i].id : i \in 1..Len(msgs)}

\* ---- record framing ----
\* AsyncWriteExt::write_u64: 8 bytes, big-endian
RECURSIVE BytesBE(_, _)
BytesBE(n, k) == IF k = 0 THEN <<>> ELSE Append(BytesBE(n \div 256, k - 1), n % 256)

write_u64(n) == BytesBE(n, 8)

\* AsyncReadExt::read_u64: big-endian
RECURSIVE FromBE(_, _)
FromBE(b, acc) == IF b = <<>> THEN acc ELSE FromBE(Tail(b), acc * 256 + Head(b))

read_u64(b) == FromBE(b, 0)

\* GenMessage::write_to / read_from: the message's own self-delimiting encoding
\* (a length byte, then the payload)
GenMessage_write_to(m) == <<Len(m)>> \o m

GenMessage_read_from(b) ==
    IF Len(b) < 1 \/ Len(b) < 1 + b[1]
    THEN [ok |-> FALSE, rest |-> <<>>]
    ELSE [ok |-> TRUE, message |-> SubSeq(b, 2, 1 + b[1]), rest |-> SeqDrop(b, 1 + b[1])]

write_to_no_id(m) == m.sock_name \o GenMessage_write_to(m.message)

\* fdstore.rs:25 SockMessage::write_to
write_to(m) == m.sock_name \o write_u64(m.id) \o GenMessage_write_to(m.message)

\* String::from_utf8 on the bytes read (single-byte code points)
from_utf8_ok(buf) == \A i \in 1..Len(buf) : buf[i] < 128

\* fdstore.rs:38 SockMessage::read_from.  res is "ok", "eof" (Error::Eof) or
\* "others" (Error::Others)
read_from(b) ==
    IF Len(b) < SOCK_NAME_LEN
    THEN [res |-> "eof"]                       \* read_exact: UnexpectedEof
    ELSE LET buf == SubSeq(b, 1, SOCK_NAME_LEN)
             r1 == SeqDrop(b, SOCK_NAME_LEN)
         IN IF ~from_utf8_ok(buf) THEN [res |-> "others"]
            ELSE IF Len(r1) < 8 THEN [res |-> "others"]
            ELSE LET g == GenMessage_read_from(SeqDrop(r1, 8))
                 IN IF ~g.ok THEN [res |-> "others"]
                    ELSE [res |-> "ok",
                          m |-> SockMessage(buf, read_u64(SubSeq(r1, 1, 8)), g.message),
                          rest |-> g.rest]

\* ---- the in-memory mapping: HashMap<String, Vec<SockMessage>> ----
\* a function whose domain is the set of keys present
EmptyCache == [n \in {} |-> <<>>]

\* fdstore.rs:146
insert_sock_message(c, m) ==
    IF m.sock_name \in DOMAIN c
    THEN [c EXCEPT ![m.sock_name] = Append(@, m)]
    ELSE [n \in DOMAIN c \cup {m.sock_name} |-> IF n = m.sock_name THEN <<m>> ELSE c[n]]

remove_sock_message_keep(c, name, id) == c

\* retain applied to the sequence of every identity
remove_sock_message_all_names(c, name, id) ==
    [n \in DOMAIN c |-> SelectSeq(c[n], LAMBDA x : x.id # id)]

\* fdstore.rs:139
remove_sock_message(c, name, id) ==
    IF name \in DOMAIN c
    THEN [c EXCEPT ![name] = SelectSeq(@, LAMBDA x : x.id # id)]
    ELSE c

\* fdstore.rs:123
get_messages(c, key) == IF key \in DOMAIN c THEN c[key] ELSE <<>>

\* fdstore.rs:66 MessageStore::load: the records of the file, in file order,
\* inserted one by one; Error::Eof ends the loop, any other error is fatal
RECURSIVE LoadLoop(_, _)
LoadLoop(b, c) ==
    LET a == read_from(b)
    IN IF a.res = "ok" THEN LoadLoop(a.rest, insert_sock_message(c, a.m))
       ELSE IF a.res = "eof" THEN [ok |-> TRUE, cache |-> c]
       ELSE [ok |-> FALSE, cache |-> c]

load(f) == LoadLoop(f, EmptyCache)

\* the orders in which HashMap::values() may visit the keys
Orders(S) == {o \in [1..Cardinality(S) -> S] : \A i, j \in DOMAIN o : i # j => o[i] # o[j]}

\* fdstore.rs:115-119: every record of every key, keys in the order o
DumpRecords(c, o) == Concat([i \in DOMAIN o |-> c[o[i]]])

RECURSIVE WriteAll(_)
WriteAll(rs) == IF rs = <<>> THEN <<>> ELSE write_to(Head(rs)) \o WriteAll(Tail(rs))

\* fdstore.rs:110 MessageStore::dump, every write succeeding: the files it can leave
DumpFiles(c) == {WriteAll(DumpRecords(c, o)) : o \in Orders(DOMAIN c)}

\* ---------------------------------------------------------------------
\* State
\* ---------------------------------------------------------------------
VARIABLES
    cache,      \* MessageStore.cache
    file,       \* the bytes of MessageStore.file
    \* one caller using the store's API sequentially
    insHist,    \* per identity: the records insert was called with, in call order
    remHist,    \* per identity: the ids remove was called with, in call order
    remOk,      \* per identity: every remove so far named the id of a record inserted before it
    nops,       \* API calls made
    lastOp,     \* the last API call
    \* the write loop (writer_task)
    wpc,        \* where the task is
    wn,         \* envelopes recv() has returned
    wcur,       \* sending_msg: [k |-> its number, msg |-> its message]
    results,    \* per envelope: the outcomes sent on its result channel, in order
    wire,       \* the messages written to the stream's write half
    wlog,       \* the calls the task made, in order
    \* the read loop (run / run_with_message_store) of the connection named NameA
    mode,       \* "run" or "store" (run_with_message_store)
    rpc,        \* where the loop is
    rlog,       \* the calls the loop made (delegate reactions, store inserts), in order
    rid,        \* the local id
    replay,     \* stored messages still to replay
    rmsg,       \* the frame just read
    shutdown,   \* wait_shutdown() has resolved
    stream,     \* "open": a read can complete; "idle": no frame or error will ever arrive
    nframes,    \* frames read on this identity so far
    startMsgs,  \* what get_messages(&name) returned at the start of this run
    fresh,      \* the ids given to freshly arrived frames in this run, in order
    via,        \* how the loop ended: "none", "disconnect", "shutdown"
    rerr,       \* the error the failed read returned ("none": no read failed)
    rbreak,     \* Len(rlog) when the loop was left
    epoch,      \* runs before this one
    usedIds,    \* the ids given to fresh frames in the runs before this one
    \* connections sharing one MessageStore (clones), their calls interleaved
    cpc,        \* per connection: where its store call is ("idle": no call in progress)
    cop,        \* per connection: the call in progress
    cnext,      \* per connection: the id of its next fresh frame
    dumpq,      \* the records the dump in progress has still to write
    fileLock,   \* the holder of MessageStore.file's mutex, or "free"
    cacheLock,  \* the holder of MessageStore.cache's mutex, or "free"
    committed,  \* the records whose insert has returned and whose remove has not been called
    removed,    \* the records whose remove has returned
    crashed,    \* the process has crashed
    recovered,  \* what MessageStore::load made of the file after the crash
    \* MessageStore::load on an inherited file
    lpc,        \* "ready": load not called yet; "done": load has returned
    lres,       \* what load returned
    \* the seek position of the store's file handle, where a rewind can fail
    fpos

storeVars == <<cache, file>>
opsVars == <<insHist, remHist, remOk, nops, lastOp>>
writerVars == <<wpc, wn, wcur, results, wire, wlog>>
connVars == <<mode, rpc, rlog, rid, replay, rmsg, shutdown, stream, nframes,
              startMsgs, fresh, via, rerr, rbreak, epoch, usedIds>>
concVars == <<cpc, cop, cnext, dumpq, fileLock, cacheLock, committed, removed, crashed,
              recovered>>
loadVars == <<lpc, lres>>
ioVars == <<fpos>>
vars == <<storeVars, opsVars, writerVars, connVars, concVars, loadVars, ioVars>>

\* what the actions of one part leave alone
OpsFrame == UNCHANGED <<writerVars, connVars, concVars, loadVars, ioVars>>
WriterFrame == UNCHANGED <<storeVars, opsVars, connVars, concVars, loadVars, ioVars>>
ConnFrame == UNCHANGED <<opsVars, writerVars, concVars, loadVars, ioVars>>
ConcFrame == UNCHANGED <<opsVars, writerVars, connVars, loadVars, ioVars>>
LoadFrame == UNCHANGED <<opsVars, writerVars, connVars, concVars, ioVars>>
IOFrame == UNCHANGED <<opsVars, writerVars, concVars, loadVars>>

\* the connections of the concurrent store runs and their names
Clients == {"c1", "c2"}
NameOf(c) == IF c = "c1" THEN NameA ELSE NameB
NoCall == [kind |-> "none", id |-> 0, message |-> <<>>]
NotLoaded == [ok |-> FALSE, cache |-> EmptyCache]

ConcOff ==
    /\ cpc = [c \in Clients |-> "off"]
    /\ cop = [c \in Clients |-> NoCall]
    /\ cnext = [c \in Clients |-> 0]
    /\ dumpq = <<>>
    /\ fileLock = "free"
    /\ cacheLock = "free"
    /\ committed = {}
    /\ removed = {}
    /\ crashed = FALSE
    /\ recovered = NotLoaded

LoadOff == lpc = "off" /\ lres = NotLoaded
IOOff == fpos = 0

NoEnvelope == [k |-> 0, msg |-> <<>>]

StoreOff == cache = EmptyCache /\ file = <<>>

WriterOff ==
    /\ wpc = "off"
    /\ wn = 0
    /\ wcur = NoEnvelope
    /\ results = [k \in 1..MaxEnvelopes |-> <<>>]
    /\ wire = <<>>
    /\ wlog = <<>>

OpsOff ==
    /\ insHist = [n \in Names |-> <<>>]
    /\ remHist = [n \in Names |-> <<>>]
    /\ remOk = [n \in Names |-> TRUE]
    /\ nops = 0
    /\ lastOp = "none"

ConnOff ==
    /\ mode = "off"
    /\ rpc = "off"
    /\ rlog = <<>>
    /\ rid = 0
    /\ replay = <<>>
    /\ rmsg = <<>>
    /\ shutdown = FALSE
    /\ stream = "idle"
    /\ nframes = 0
    /\ startMsgs = <<>>
    /\ fresh = <<>>
    /\ via = "none"
    /\ rerr = "none"
    /\ rbreak = 0
    /\ epoch = 0
    /\ usedIds = {}

\* ---------------------------------------------------------------------
\* The store's API called by one caller, each call running to completion
\* ---------------------------------------------------------------------
\* MessageStore::load of an empty file
InitOps ==
    /\ file = <<>>
    /\ cache = load(file).cache
    /\ OpsOff
    /\ WriterOff
    /\ ConnOff
    /\ ConcOff
    /\ LoadOff
    /\ IOOff

\* fdstore.rs:99 MessageStore::insert
OpsInsert(name, id, m) ==
    /\ OpsFrame
    /\ nops < MaxOps
    /\ Len(name) = SOCK_NAME_LEN
    /\ cache' = insert_sock_message(cache, SockMessage(name, id, m))
    /\ file' \in DumpFiles(cache')
    /\ insHist' = [insHist EXCEPT ![name] = Append(@, SockMessage(name, id, m))]
    /\ nops' = nops + 1
    /\ lastOp' = "insert"
    /\ UNCHANGED <<remHist, remOk>>

\* a connection_id one byte short of SOCK_NAME_LEN, and one a byte too long
NameShort == [i \in 1..(SOCK_NAME_LEN - 1) |-> 65]
NameLong == [i \in 1..(SOCK_NAME_LEN + 1) |-> 65]
BadNames == {NameShort, NameLong}

\* insert without the assert_eq! of fdstore.rs:100
OpsInsertUnchecked(name, id, m) ==
    /\ OpsFrame
    /\ nops < MaxOps
    /\ Len(name) # SOCK_NAME_LEN
    /\ cache' = insert_sock_message(cache, SockMessage(name, id, m))
    /\ file' \in DumpFiles(cache')
    /\ nops' = nops + 1
    /\ lastOp' = "panic"
    /\ UNCHANGED <<insHist, remHist, remOk>>

\* fdstore.rs:100 MessageStore::insert, assert_eq! failing: the call panics
\* before insert_sock_message and dump
OpsInsertBadName(name, id, m) ==
    /\ OpsFrame
    /\ nops < MaxOps
    /\ Len(name) # SOCK_NAME_LEN
    /\ nops' = nops + 1
    /\ lastOp' = "panic"
    /\ UNCHANGED <<cache, file, insHist, remHist, remOk>>

\* fdstore.rs:134 MessageStore::remove
OpsRemove(name, id) ==
    /\ OpsFrame
    /\ nops < MaxOps
    /\ cache' = remove_sock_message(cache, name, id)
    /\ file' \in DumpFiles(cache')
    /\ remHist' = [remHist EXCEPT ![name] = Append(@, id)]
    /\ remOk' = [remOk EXCEPT ![name] =
                    @ /\ \E i \in 1..Len(insHist[name]) : insHist[name][i].id = id]
    /\ nops' = nops + 1
    /\ lastOp' = "remove"
    /\ UNCHANGED insHist

\* a restart: MessageStore::load on the file the store left
OpsReload ==
    /\ OpsFrame
    /\ nops < MaxOps
    /\ load(file).ok
    /\ cache' = load(file).cache
    /\ nops' = nops + 1
    /\ lastOp' = "load"
    /\ UNCHANGED <<file, insHist, remHist, remOk>>

NextOps ==
    \/ \E name \in Names, id \in Ids, m \in Messages : OpsInsert(name, id, m)
    \/ \E name \in BadNames, id \in Ids, m \in Messages : OpsInsertBadName(name, id, m)
    \/ \E name \in Names, id \in Ids : OpsRemove(name, id)
    \/ OpsReload

SpecOps == InitOps /\ [][NextOps]_vars

\* ---------------------------------------------------------------------
\* The write loop: connection.rs:66-78
\* ---------------------------------------------------------------------
InitWriter ==
    /\ StoreOff
    /\ OpsOff
    /\ ConnOff
    /\ ConcOff
    /\ LoadOff
    /\ IOOff
    /\ wpc = "recv"
    /\ wn = 0
    /\ wcur = NoEnvelope
    /\ results = [k \in 1..MaxEnvelopes |-> <<>>]
    /\ wire = <<>>
    /\ wlog = <<>>

\* SendingMessage::send_result: the outcome goes out on the envelope's result channel
send_result(res, k, outcome) == [res EXCEPT ![k] = Append(@, outcome)]

\* connection.rs:67 recv() returns Some(sending_msg)
WriterRecvSome(m) ==
    /\ WriterFrame
    /\ wpc = "recv"
    /\ wn < MaxEnvelopes
    /\ wn' = wn + 1
    /\ wcur' = [k |-> wn + 1, msg |-> m]
    /\ wlog' = Append(wlog, <<"recv", wn + 1>>)
    /\ wpc' = "write"
    /\ UNCHANGED <<results, wire>>

\* connection.rs:67 recv() returns None: the loop ends
WriterRecvNone ==
    /\ WriterFrame
    /\ wpc = "recv"
    /\ wlog' = Append(wlog, <<"recv", 0>>)
    /\ wpc' = "exit"
    /\ UNCHANGED <<wn, wcur, results, wire>>

\* a write that puts the message in front of what the stream already carries
WriterWriteOkFront ==
    /\ WriterFrame
    /\ wpc = "write"
    /\ wire' = <<wcur.msg>> \o wire
    /\ wlog' = Append(wlog, <<"write_ok", wcur.k>>)
    /\ wpc' = "send_ok"
    /\ UNCHANGED <<wn, wcur, results>>

\* connection.rs:69 write_to succeeds
WriterWriteOk ==
    /\ WriterFrame
    /\ wpc = "write"
    /\ wire' = Append(wire, wcur.msg)
    /\ wlog' = Append(wlog, <<"write_ok", wcur.k>>)
    /\ wpc' = "send_ok"
    /\ UNCHANGED <<wn, wcur, results>>

\* a failed write whose error goes to disconnect before the result channel
WriterWriteErrDisconnectFirst ==
    /\ WriterFrame
    /\ wpc = "write"
    /\ results' = send_result(results, wcur.k, "err")
    /\ wlog' = wlog \o << <<"write_err", wcur.k>>, <<"disconnect", wcur.k>>, <<"result_err", wcur.k>> >>
    /\ wpc' = "send_ok"
    /\ UNCHANGED <<wn, wcur, wire>>

\* a failed write that ends the loop
WriterWriteErrBreak ==
    /\ WriterFrame
    /\ wpc = "write"
    /\ results' = send_result(results, wcur.k, "err")
    /\ wlog' = wlog \o << <<"write_err", wcur.k>>, <<"result_err", wcur.k>> >>
    /\ wpc' = "exit"
    /\ UNCHANGED <<wn, wcur, wire>>

\* connection.rs:69-71 write_to fails: send_result(Err(e))
WriterWriteErr ==
    /\ WriterFrame
    /\ wpc = "write"
    /\ results' = send_result(results, wcur.k, "err")
    /\ wlog' = wlog \o << <<"write_err", wcur.k>>, <<"result_err", wcur.k>> >>
    /\ wpc' = "disconnect"
    /\ UNCHANGED <<wn, wcur, wire>>

\* connection.rs:72 writer_delegate.disconnect(&sending_msg.msg, e)
WriterDisconnect ==
    /\ WriterFrame
    /\ wpc = "disconnect"
    /\ wlog' = Append(wlog, <<"disconnect", wcur.k>>)
    /\ wpc' = "send_ok"
    /\ UNCHANGED <<wn, wcur, results, wire>>

\* connection.rs:74 send_result(Ok(())), on both branches
WriterSendOk ==
    /\ WriterFrame
    /\ wpc = "send_ok"
    /\ results' = send_result(results, wcur.k, "ok")
    /\ wlog' = Append(wlog, <<"result_ok", wcur.k>>)
    /\ wpc' = "recv"
    /\ UNCHANGED <<wn, wcur, wire>>

\* connection.rs:76 writer_delegate.exit()
WriterExit ==
    /\ WriterFrame
    /\ wpc = "exit"
    /\ wlog' = Append(wlog, <<"exit", 0>>)
    /\ wpc' = "done"
    /\ UNCHANGED <<wn, wcur, results, wire>>

NextWriter ==
    \/ \E m \in Messages : WriterRecvSome(m)
    \/ WriterRecvNone
    \/ WriterWriteOk
    \/ WriterWriteErr
    \/ WriterDisconnect
    \/ WriterSendOk
    \/ WriterExit

SpecWriter == InitWriter /\ [][NextWriter]_vars

\* envelope k has been dequeued and the loop is done with it
WriterDoneWith(k) == k < wn \/ (k = wn /\ wpc \in {"recv", "exit", "done"})

\* C1: every envelope the write loop dequeued gets exactly one outcome on its
\* result channel: never two, and one once the loop is done with it; after a
\* failure has been reported no success follows.
C1_ExactlyOneOutcome ==
    \A k \in 1..MaxEnvelopes :
        /\ Len(results[k]) <= 1
        /\ WriterDoneWith(k) => Len(results[k]) = 1

\* ---------------------------------------------------------------------
\* The read loop: connection.rs:89-122 (run), 125-181 (run_with_message_store)
\* ---------------------------------------------------------------------
\* Connection.name
name == NameA

\* the errors GenMessage::read_from can return: end of stream, transport, decode
ReadErrors == {"eof", "io", "decode"}

Call(c, id, arg) == [call |-> c, id |-> id, arg |-> arg]

\* the records of msgs other than those with this id, in their order
Without(msgs, id) == SelectSeq(msgs, LAMBDA x : x.id # id)

\* the records a store can hold for one identity when a run starts: any ids,
\* pairwise distinct, in any order
StoredSeqs(n) ==
    {[i \in DOMAIN o |-> SockMessage(n, o[i], IF o[i] % 2 = 0 THEN Msg1 ELSE Msg2)] :
        o \in UNION {Orders(S) : S \in SUBSET Ids}}

\* the files the store is loaded from
InitFiles ==
    {WriteAll(pre \o recs) :
        pre \in {<<>>, <<SockMessage(NameB, 0, Msg2)>>}, recs \in StoredSeqs(name)}

InitConn ==
    /\ file \in InitFiles
    /\ cache = load(file).cache
    /\ OpsOff
    /\ WriterOff
    /\ ConcOff
    /\ LoadOff
    /\ IOOff
    /\ mode \in {"run", "store"}
    /\ rpc = IF mode = "store" THEN "start" ELSE "select"
    /\ rlog = <<>>
    /\ rid = 0
    /\ replay = <<>>
    /\ rmsg = <<>>
    /\ shutdown = FALSE
    /\ stream = "open"
    /\ nframes = 0
    /\ startMsgs = <<>>
    /\ fresh = <<>>
    /\ via = "none"
    /\ rerr = "none"
    /\ rbreak = 0
    /\ epoch = 0
    /\ usedIds = {}

\* connection.rs:133-135
ConnStart ==
    /\ ConnFrame
    /\ rpc = "start"
    /\ startMsgs' = get_messages(cache, name)
    /\ replay' = get_messages(cache, name)
    /\ rid' = 0
    /\ rpc' = IF get_messages(cache, name) = <<>> THEN "select" ELSE "replay"
    /\ UNCHANGED <<storeVars, mode, rlog, rmsg, shutdown, stream, nframes, fresh, via, rerr, rbreak,
                   epoch, usedIds>>

NextIdKeepLast(cur, m) == m.id + 1

NextIdNoAdvance(cur, m) == cur

\* connection.rs:137-139
NextId(cur, m) == IF m.id >= cur THEN m.id + 1 ELSE cur

\* the replay loop taking the stored records from the back
ConnReplayFromBack ==
    /\ ConnFrame
    /\ rpc = "replay"
    /\ rid' = NextId(rid, replay[Len(replay)])
    /\ rlog' = Append(rlog, Call("handle_msg", replay[Len(replay)].id, replay[Len(replay)].message))
    /\ replay' = SubSeq(replay, 1, Len(replay) - 1)
    /\ rpc' = IF Len(replay) = 1 THEN "select" ELSE "replay"
    /\ UNCHANGED <<storeVars, mode, rmsg, shutdown, stream, nframes, startMsgs, fresh, via, rerr, rbreak,
                   epoch, usedIds>>

\* connection.rs:136-142, one iteration
ConnReplay ==
    /\ ConnFrame
    /\ rpc = "replay"
    /\ rid' = NextId(rid, Head(replay))
    /\ rlog' = Append(rlog, Call("handle_msg", Head(replay).id, Head(replay).message))
    /\ replay' = Tail(replay)
    /\ rpc' = IF Tail(replay) = <<>> THEN "select" ELSE "replay"
    /\ UNCHANGED <<storeVars, mode, rmsg, shutdown, stream, nframes, startMsgs, fresh, via, rerr, rbreak,
                   epoch, usedIds>>

\* connection.rs:99-102, 145-148: the read completes first, with Ok(msg)
ConnReadOk(m) ==
    /\ ConnFrame
    /\ rpc = "select"
    /\ stream = "open"
    /\ nframes < MaxFrames
    /\ rmsg' = m
    /\ nframes' = nframes + 1
    /\ rpc' = IF mode = "store" THEN "insert" ELSE "handle"
    /\ UNCHANGED <<storeVars, mode, rlog, rid, replay, shutdown, stream, startMsgs, fresh,
                   via, rerr, rbreak, epoch, usedIds>>

\* connection.rs:149 message_store.insert(name.clone(), id, msg.clone())
ConnInsert ==
    /\ ConnFrame
    /\ rpc = "insert"
    /\ cache' = insert_sock_message(cache, SockMessage(name, rid, rmsg))
    /\ file' \in DumpFiles(cache')
    /\ fresh' = Append(fresh, rid)
    /\ rlog' = Append(rlog, Call("insert", rid, rmsg))
    /\ rpc' = "handle"
    /\ UNCHANGED <<mode, rid, replay, rmsg, shutdown, stream, nframes, startMsgs, via,
                   rerr, rbreak, epoch, usedIds>>

\* the dispatch of a fresh frame without the id += 1 of connection.rs:151
ConnHandleKeepId ==
    /\ ConnFrame
    /\ rpc = "handle"
    /\ rlog' = Append(rlog, Call("handle_msg", IF mode = "store" THEN rid ELSE 0, rmsg))
    /\ rpc' = "select"
    /\ UNCHANGED <<storeVars, mode, rid, replay, rmsg, shutdown, stream, nframes, startMsgs,
                   fresh, via, rerr, rbreak, epoch, usedIds>>

\* connection.rs:103 handle_msg(0, msg); connection.rs:150-151 handle_msg(id, msg), id += 1
ConnHandle ==
    /\ ConnFrame
    /\ rpc = "handle"
    /\ rlog' = Append(rlog, Call("handle_msg", IF mode = "store" THEN rid ELSE 0, rmsg))
    /\ rid' = IF mode = "store" THEN rid + 1 ELSE rid
    /\ rpc' = "select"
    /\ UNCHANGED <<storeVars, mode, replay, rmsg, shutdown, stream, nframes, startMsgs,
                   fresh, via, rerr, rbreak, epoch, usedIds>>

ConnReadErrSilent(e) ==
    /\ ConnFrame
    /\ rpc = "select"
    /\ stream = "open"
    /\ via' = "disconnect"
    /\ rerr' = e
    /\ rbreak' = Len(rlog)
    /\ rpc' = "exit"
    /\ UNCHANGED <<storeVars, mode, rlog, rid, replay, rmsg, shutdown, stream, nframes,
                   startMsgs, fresh, epoch, usedIds>>

\* connection.rs:105-108, 153-156: the read completes first, with Err(e)
ConnReadErr(e) ==
    /\ ConnFrame
    /\ rpc = "select"
    /\ stream = "open"
    /\ rlog' = Append(rlog, Call("disconnect", 0, <<e, "writer_task">>))
    /\ via' = "disconnect"
    /\ rerr' = e
    /\ rbreak' = Len(rlog')
    /\ rpc' = "exit"
    /\ UNCHANGED <<storeVars, mode, rid, replay, rmsg, shutdown, stream, nframes,
                   startMsgs, fresh, epoch, usedIds>>

ConnShutdownAsError ==
    /\ ConnFrame
    /\ rpc = "select"
    /\ shutdown
    /\ rlog' = Append(rlog, Call("disconnect", 0, <<"shutdown", "writer_task">>))
    /\ via' = "shutdown"
    /\ rbreak' = Len(rlog')
    /\ rpc' = "exit"
    /\ UNCHANGED rerr
    /\ UNCHANGED <<storeVars, mode, rid, replay, rmsg, shutdown, stream, nframes,
                   startMsgs, fresh, epoch, usedIds>>

\* connection.rs:112-115, 160-163: wait_shutdown() completes first
ConnShutdown ==
    /\ ConnFrame
    /\ rpc = "select"
    /\ shutdown
    /\ via' = "shutdown"
    /\ rbreak' = Len(rlog)
    /\ rpc' = "exit"
    /\ UNCHANGED rerr
    /\ UNCHANGED <<storeVars, mode, rlog, rid, replay, rmsg, shutdown, stream, nframes,
                   startMsgs, fresh, epoch, usedIds>>

ConnExitTwice ==
    /\ ConnFrame
    /\ rpc = "exit"
    /\ rlog' = rlog \o <<Call("exit", 0, <<>>), Call("exit", 0, <<>>)>>
    /\ rpc' = "done"
    /\ UNCHANGED <<storeVars, mode, rid, replay, rmsg, shutdown, stream, nframes,
                   startMsgs, fresh, via, rerr, rbreak, epoch, usedIds>>

\* connection.rs:118-121, 166-180: reader_delegate.exit(), Ok(())
ConnExit ==
    /\ ConnFrame
    /\ rpc = "exit"
    /\ rlog' = Append(rlog, Call("exit", 0, <<>>))
    /\ rpc' = "done"
    /\ UNCHANGED <<storeVars, mode, rid, replay, rmsg, shutdown, stream, nframes,
                   startMsgs, fresh, via, rerr, rbreak, epoch, usedIds>>

\* the shutdown the ReaderDelegate waits for is requested
EnvShutdown ==
    /\ ConnFrame
    /\ rpc # "done"
    /\ ~shutdown
    /\ shutdown' = TRUE
    /\ UNCHANGED <<storeVars, mode, rpc, rlog, rid, replay, rmsg, stream, nframes,
                   startMsgs, fresh, via, rerr, rbreak, epoch, usedIds>>

\* the peer stops sending and keeps the stream open: every later read pends
EnvStall ==
    /\ ConnFrame
    /\ rpc # "done"
    /\ stream = "open"
    /\ stream' = "idle"
    /\ UNCHANGED <<storeVars, mode, rpc, rlog, rid, replay, rmsg, shutdown, nframes,
                   startMsgs, fresh, via, rerr, rbreak, epoch, usedIds>>

Dispatched(id) == \E i \in 1..Len(rlog) : rlog[i].call = "handle_msg" /\ rlog[i].id = id

\* fdstore.rs:134 MessageStore::remove(name, id), called when the handling of a
\* dispatched message is complete
AppRemove(id) ==
    /\ ConnFrame
    /\ mode = "store"
    /\ Dispatched(id)
    /\ \E i \in 1..Len(get_messages(cache, name)) : get_messages(cache, name)[i].id = id
    /\ cache' = remove_sock_message(cache, name, id)
    /\ file' \in DumpFiles(cache')
    /\ UNCHANGED connVars

\* the process stops (at any point) and is started again: MessageStore::load on
\* the file, Connection::new with the same name, run_with_message_store
ConnRestart ==
    /\ ConnFrame
    /\ mode = "store"
    /\ epoch + 1 < MaxRuns
    /\ load(file).ok
    /\ cache' = load(file).cache
    /\ usedIds' = usedIds \cup Range(fresh)
    /\ epoch' = epoch + 1
    /\ rpc' = "start"
    /\ rlog' = <<>>
    /\ rid' = 0
    /\ replay' = <<>>
    /\ rmsg' = <<>>
    /\ shutdown' = FALSE
    /\ stream' = "open"
    /\ startMsgs' = <<>>
    /\ fresh' = <<>>
    /\ via' = "none"
    /\ rerr' = "none"
    /\ rbreak' = 0
    /\ UNCHANGED <<file, mode, nframes>>

NextConn ==
    \/ ConnStart
    \/ ConnReplay
    \/ \E m \in Messages : ConnReadOk(m)
    \/ ConnInsert
    \/ ConnHandle
    \/ \E e \in ReadErrors : ConnReadErr(e)
    \/ ConnShutdown
    \/ ConnExit
    \/ EnvShutdown
    \/ EnvStall

SpecConn == InitConn /\ [][NextConn]_vars

\* the runtime runs the read loop whenever it can take a step: a resolved
\* wait_shutdown() wins the select! when the read stays pending
SpecConnFair == SpecConn /\ WF_vars(ConnShutdown) /\ WF_vars(ConnExit)

\* run_with_message_store over restarts: the runs of one identity, the removes
\* of the application, the restarts
InitRestart ==
    /\ InitConn
    /\ mode = "store"
    /\ file \in {WriteAll(recs) : recs \in {r \in StoredSeqs(name) : Len(r) <= 1}}

NextRestart ==
    \/ ConnStart
    \/ ConnReplay
    \/ \E m \in {Msg1} : ConnReadOk(m)
    \/ ConnInsert
    \/ ConnHandle
    \/ \E e \in {"eof"} : ConnReadErr(e)
    \/ ConnExit
    \/ \E id \in 0..(MaxId + MaxFrames) : AppRemove(id)
    \/ ConnRestart

SpecRestart == InitRestart /\ [][NextRestart]_vars

\* ---------------------------------------------------------------------
\* Connections sharing one MessageStore: insert, remove and dump step by step
\* ---------------------------------------------------------------------
InitConc ==
    /\ file = <<>>
    /\ cache = load(file).cache
    /\ OpsOff
    /\ WriterOff
    /\ ConnOff
    /\ cpc = [c \in Clients |-> "idle"]
    /\ cop = [c \in Clients |-> NoCall]
    /\ cnext = [c \in Clients |-> 0]
    /\ dumpq = <<>>
    /\ fileLock = "free"
    /\ cacheLock = "free"
    /\ committed = {}
    /\ removed = {}
    /\ crashed = FALSE
    /\ recovered = NotLoaded
    /\ LoadOff
    /\ IOOff

CallRecord(c) == SockMessage(NameOf(c), cop[c].id, cop[c].message)

\* connection.rs:149 -> fdstore.rs:99-100: insert(name, id, msg) is called
ConcCallInsert(c, m) ==
    /\ ConcFrame
    /\ ~crashed
    /\ cpc[c] = "idle"
    /\ cnext[c] < MaxInserts
    /\ Len(NameOf(c)) = SOCK_NAME_LEN
    /\ cop' = [cop EXCEPT ![c] = [kind |-> "insert", id |-> cnext[c], message |-> m]]
    /\ cnext' = [cnext EXCEPT ![c] = @ + 1]
    /\ cpc' = [cpc EXCEPT ![c] = "mem"]
    /\ UNCHANGED <<storeVars, dumpq, fileLock, cacheLock, committed, removed, crashed,
                   recovered>>

\* fdstore.rs:134: remove(name, id) is called for a record whose insert returned
ConcCallRemove(c, id) ==
    /\ ConcFrame
    /\ ~crashed
    /\ cpc[c] = "idle"
    /\ \E r \in committed : r.sock_name = NameOf(c) /\ r.id = id
    /\ committed' = {r \in committed : ~(r.sock_name = NameOf(c) /\ r.id = id)}
    /\ cop' = [cop EXCEPT ![c] = [kind |-> "remove", id |-> id, message |-> <<>>]]
    /\ cpc' = [cpc EXCEPT ![c] = "mem"]
    /\ UNCHANGED <<storeVars, cnext, dumpq, fileLock, cacheLock, removed, crashed,
                   recovered>>

\* the in-memory update keeping the cache mutex while dump() runs
ConcMemKeepLock(c) ==
    /\ ConcFrame
    /\ ~crashed
    /\ cpc[c] = "mem"
    /\ cacheLock = "free"
    /\ cacheLock' = c
    /\ cache' = IF cop[c].kind = "insert"
                 THEN insert_sock_message(cache, CallRecord(c))
                 ELSE remove_sock_message(cache, NameOf(c), cop[c].id)
    /\ cpc' = [cpc EXCEPT ![c] = "dump"]
    /\ UNCHANGED <<file, cop, cnext, dumpq, fileLock, committed, removed,
                   crashed, recovered>>

\* fdstore.rs:101-106 / 135: insert_sock_message or remove_sock_message, under
\* the cache mutex
ConcMem(c) ==
    /\ ConcFrame
    /\ ~crashed
    /\ cpc[c] = "mem"
    /\ cacheLock = "free"
    /\ cache' = IF cop[c].kind = "insert"
                 THEN insert_sock_message(cache, CallRecord(c))
                 ELSE remove_sock_message(cache, NameOf(c), cop[c].id)
    /\ cpc' = [cpc EXCEPT ![c] = "dump"]
    /\ UNCHANGED <<file, cop, cnext, dumpq, fileLock, cacheLock, committed, removed,
                   crashed, recovered>>

\* fdstore.rs:111 self.file.lock().await
DumpLockFile(c) ==
    /\ ConcFrame
    /\ ~crashed
    /\ cpc[c] = "dump"
    /\ fileLock = "free"
    /\ fileLock' = c
    /\ cpc' = [cpc EXCEPT ![c] = "truncate"]
    /\ UNCHANGED <<storeVars, cop, cnext, dumpq, cacheLock, committed, removed, crashed,
                   recovered>>

DumpNoTruncate(c) ==
    /\ ConcFrame
    /\ ~crashed
    /\ cpc[c] = "truncate"
    /\ cpc' = [cpc EXCEPT ![c] = "lock_cache"]
    /\ UNCHANGED <<storeVars, cop, cnext, dumpq, fileLock, cacheLock, committed, removed,
                   crashed, recovered>>

\* fdstore.rs:112-113 file.set_len(0), file.rewind()
DumpTruncate(c) ==
    /\ ConcFrame
    /\ ~crashed
    /\ cpc[c] = "truncate"
    /\ file' = <<>>
    /\ cpc' = [cpc EXCEPT ![c] = "lock_cache"]
    /\ UNCHANGED <<cache, cop, cnext, dumpq, fileLock, cacheLock, committed, removed,
                   crashed, recovered>>

\* fdstore.rs:114-115 self.cache.lock().await, cache.values()
DumpLockCache(c) ==
    /\ ConcFrame
    /\ ~crashed
    /\ cpc[c] = "lock_cache"
    /\ cacheLock = "free"
    /\ cacheLock' = c
    /\ \E o \in Orders(DOMAIN cache) : dumpq' = DumpRecords(cache, o)
    /\ cpc' = [cpc EXCEPT ![c] = "write"]
    /\ UNCHANGED <<storeVars, cop, cnext, fileLock, committed, removed, crashed,
                   recovered>>

\* fdstore.rs:117 m.write_to(file.deref_mut()), one record
DumpWrite(c) ==
    /\ ConcFrame
    /\ ~crashed
    /\ cpc[c] = "write"
    /\ dumpq # <<>>
    /\ file' = file \o write_to(Head(dumpq))
    /\ dumpq' = Tail(dumpq)
    /\ UNCHANGED <<cache, cpc, cop, cnext, fileLock, cacheLock, committed, removed,
                   crashed, recovered>>

\* fdstore.rs:120-121 file.flush(), the guards are dropped; insert / remove returns
DumpFlush(c) ==
    /\ ConcFrame
    /\ ~crashed
    /\ cpc[c] = "write"
    /\ dumpq = <<>>
    /\ fileLock' = "free"
    /\ cacheLock' = "free"
    /\ committed' = IF cop[c].kind = "insert" THEN committed \cup {CallRecord(c)}
                     ELSE committed
    /\ removed' = IF cop[c].kind = "remove"
                   THEN removed \cup {[sock_name |-> NameOf(c), id |-> cop[c].id]}
                   ELSE removed
    /\ cop' = [cop EXCEPT ![c] = NoCall]
    /\ cpc' = [cpc EXCEPT ![c] = "idle"]
    /\ UNCHANGED <<storeVars, cnext, dumpq, crashed, recovered>>

\* the process crashes; the next process calls MessageStore::load on the file
Crash ==
    /\ ConcFrame
    /\ ~crashed
    /\ crashed' = TRUE
    /\ recovered' = load(file)
    /\ UNCHANGED <<storeVars, cpc, cop, cnext, dumpq, fileLock, cacheLock, committed,
                   removed>>

NextConc ==
    \/ \E c \in Clients, m \in {Msg1} : ConcCallInsert(c, m)
    \/ \E c \in Clients, id \in 0..MaxInserts : ConcCallRemove(c, id)
    \/ \E c \in Clients : ConcMem(c)
    \/ \E c \in Clients : DumpLockFile(c)
    \/ \E c \in Clients : DumpTruncate(c)
    \/ \E c \in Clients : DumpLockCache(c)
    \/ \E c \in Clients : DumpWrite(c)
    \/ \E c \in Clients : DumpFlush(c)
    \/ Crash

SpecConc == InitConc /\ [][NextConc]_vars

\* fdstore.rs:123 get_messages(key) is called
ConcCallGet(c) ==
    /\ ConcFrame
    /\ ~crashed
    /\ cpc[c] = "idle"
    /\ cop' = [cop EXCEPT ![c] = [kind |-> "get_messages", id |-> 0, message |-> <<>>]]
    /\ cpc' = [cpc EXCEPT ![c] = "get"]
    /\ UNCHANGED <<storeVars, cnext, dumpq, fileLock, cacheLock, committed, removed,
                   crashed, recovered>>

\* fdstore.rs:125-132 get_messages: the cache mutex is taken, the records are
\* cloned, the guard is dropped at the return
ConcGet(c) ==
    /\ ConcFrame
    /\ ~crashed
    /\ cpc[c] = "get"
    /\ cacheLock = "free"
    /\ cop' = [cop EXCEPT ![c] = NoCall]
    /\ cpc' = [cpc EXCEPT ![c] = "idle"]
    /\ UNCHANGED <<storeVars, cnext, dumpq, fileLock, cacheLock, committed, removed,
                   crashed, recovered>>

\* fdstore.rs:110 dump() is called on its own
ConcCallDump(c) ==
    /\ ConcFrame
    /\ ~crashed
    /\ cpc[c] = "idle"
    /\ cop' = [cop EXCEPT ![c] = [kind |-> "dump", id |-> 0, message |-> <<>>]]
    /\ cpc' = [cpc EXCEPT ![c] = "dump"]
    /\ UNCHANGED <<storeVars, cnext, dumpq, fileLock, cacheLock, committed, removed,
                   crashed, recovered>>

\* fdstore.rs:99-100: insert(name, id, msg) is called, up to MaxCalls times
\* by a clone
CallsInsert(c, m) ==
    /\ cnext[c] < MaxCalls
    /\ ConcCallInsert(c, m)

\* insert, remove, get_messages and dump called on two clones of one store
NextCalls ==
    \/ \E c \in Clients, m \in {Msg1} : CallsInsert(c, m)
    \/ \E c \in Clients, id \in 0..MaxInserts : ConcCallRemove(c, id)
    \/ \E c \in Clients : ConcCallGet(c)
    \/ \E c \in Clients : ConcCallDump(c)
    \/ \E c \in Clients : ConcMem(c)
    \/ \E c \in Clients : ConcGet(c)
    \/ \E c \in Clients : DumpLockFile(c)
    \/ \E c \in Clients : DumpTruncate(c)
    \/ \E c \in Clients : DumpLockCache(c)
    \/ \E c \in Clients : DumpWrite(c)
    \/ \E c \in Clients : DumpFlush(c)

SpecCalls == InitConc /\ [][NextCalls]_vars

\* the runtime polls every task that can run, the I/O calls return, and the
\* tokio mutexes hand the lock to their waiters in the order they queued: a
\* task that keeps finding a lock free at times gets it
SpecCallsFair ==
    /\ SpecCalls
    /\ \A c \in Clients :
          /\ SF_vars(ConcMem(c))
          /\ SF_vars(ConcGet(c))
          /\ SF_vars(DumpLockFile(c))
          /\ SF_vars(DumpLockCache(c))
          /\ WF_vars(DumpTruncate(c))
          /\ WF_vars(DumpWrite(c))
          /\ WF_vars(DumpFlush(c))

\* C20: concurrent insert, remove, get_messages and dump calls on clones of
\* one store never deadlock: the cache mutex is held only by a task that
\* holds the file mutex too or that waits for no lock (the in-memory update
\* takes and releases it before the file mutex is requested), so with fair
\* scheduling every call returns.
C20_NoDeadlock ==
    /\ [](\A c \in Clients :
            /\ cpc[c] = "dump" => (cacheLock # c /\ fileLock # c)
            /\ cpc[c] \in {"mem", "get"} => (cacheLock # c /\ fileLock # c)
            /\ cpc[c] = "lock_cache" => (fileLock = c /\ cacheLock # c)
            /\ cacheLock = c => (fileLock = c /\ cpc[c] = "write"))
    /\ \A c \in Clients : (cpc[c] # "idle") ~> (cpc[c] = "idle")

\* one clone waits for the cache mutex inside dump() while the other waits
\* for it in get_messages
C20_Witness ==
    /\ cpc["c1"] = "write" /\ cacheLock = "c1" /\ fileLock = "c1"
    /\ cpc["c2"] = "get"
    /\ cache # EmptyCache

\* no insert, remove or dump is in progress
Quiescent == ~crashed /\ \A c \in Clients : cpc[c] = "idle"

\* C2 as stated: a record whose insert has returned and whose remove has not
\* been called is in the store MessageStore::load builds from the file after a
\* crash at any point, other connections' inserts, removes and dumps included.
C2_RecordSurvivesCrash ==
    crashed =>
        /\ recovered.ok
        /\ \A r \in committed : r \in Range(get_messages(recovered.cache, r.sock_name))

\* C5: whenever no insert, remove or dump is in progress the file holds, for
\* every identity, the records of the in-memory mapping in the same order, and
\* nothing else; a record inserted and then removed is not in it.
C5_FileMatchesMemoryWhenQuiescent ==
    Quiescent =>
        /\ file \in DumpFiles(cache)
        /\ load(file).ok
        /\ \A n \in Names : get_messages(load(file).cache, n) = get_messages(cache, n)
        /\ \A n \in Names : \A x \in removed :
               x.sock_name = n => x.id \notin IdsOfSeq(get_messages(load(file).cache, n))

\* both connections inserted, one record was removed again, all calls returned
C5_Witness ==
    /\ Quiescent
    /\ removed # {}
    /\ \A c \in Clients : cnext[c] >= 1
    /\ committed # {}

\* ---------------------------------------------------------------------
\* MessageStore::load on the file an earlier process left
\* ---------------------------------------------------------------------
\* the record sequences an earlier dump was writing
LoadSeqs == StoredSeqs(NameA)

\* the files that end on a record boundary
WholeFiles == UNION {{WriteAll(SubSeq(r, 1, j)) : j \in 0..Len(r)} : r \in LoadSeqs}

\* the files a dump leaves when the process stops at any byte of it
TornFiles == UNION {{SubSeq(WriteAll(r), 1, k) : k \in 0..Len(WriteAll(r))} : r \in LoadSeqs}

InitLoad ==
    /\ file \in TornFiles
    /\ cache = EmptyCache
    /\ OpsOff
    /\ WriterOff
    /\ ConnOff
    /\ ConcOff
    /\ lpc = "ready"
    /\ lres = NotLoaded
    /\ IOOff

\* fdstore.rs:66-97 MessageStore::load(f)
LoadFile ==
    /\ LoadFrame
    /\ lpc = "ready"
    /\ lres' = load(file)
    /\ cache' = IF load(file).ok THEN load(file).cache ELSE cache
    /\ lpc' = "done"
    /\ UNCHANGED file

NextLoad == LoadFile

SpecLoad == InitLoad /\ [][NextLoad]_vars

\* C11: load returns a store only when the file ends exactly on a record
\* boundary; a file ending in a truncated record, one with fewer than the 36
\* bytes of the connection_id included, makes load return an error.
C11_LoadOkOnlyOnRecordBoundary ==
    lpc = "done" => (lres.ok <=> file \in WholeFiles)

\* ---------------------------------------------------------------------
\* Properties of the read loop
\* ---------------------------------------------------------------------
Count(c) == Cardinality({i \in 1..Len(rlog) : rlog[i].call = c})
IdsOf(msgs) == IdsOfSeq(msgs)
MaxOf(S) == CHOOSE x \in S : \A y \in S : y <= x
OneMoreThanMax(msgs) == IF msgs = <<>> THEN 0 ELSE MaxOf(IdsOf(msgs)) + 1

\* C6: in run_with_message_store the id of the first freshly arriving frame is
\* one more than the largest id among the records the store held for the
\* identity at the start of the run, in whatever order they are stored, and 0
\* when it held none.
C6_FirstFreshId ==
    mode = "store" =>
        /\ (rpc \in {"select", "insert"} /\ fresh = <<>>) => rid = OneMoreThanMax(startMsgs)
        /\ fresh # <<>> => fresh[1] = OneMoreThanMax(startMsgs)

\* a first fresh frame after records stored with their ids out of order
C6_Witness ==
    /\ mode = "store"
    /\ fresh # <<>>
    /\ Len(startMsgs) = 2
    /\ startMsgs[1].id > startMsgs[2].id

C8_ExitExactlyOnce ==
    /\ rpc = "done" => (Count("exit") = 1 /\ rlog[Len(rlog)].call = "exit")
    /\ rpc # "done" => Count("exit") = 0
    /\ via # "none" <=> rpc \in {"exit", "done"}

\* run_with_message_store left by a read failure after a dispatch, exit done
C8_Witness ==
    /\ rpc = "done"
    /\ mode = "store"
    /\ via = "disconnect"
    /\ Count("handle_msg") >= 1

\* C9: a failed read makes the loop invoke disconnect exactly once, with that
\* error and the write task's handle, as its last call before exit, and leave
\* the loop; no read failed means no disconnect; a failure on the first frame
\* in run means no handle_msg at all.
C9_DisconnectOnReadFailure ==
    /\ rerr # "none" =>
          /\ via = "disconnect"
          /\ rpc \in {"exit", "done"}
          /\ Count("disconnect") = 1
          /\ rbreak >= 1
          /\ rlog[rbreak].call = "disconnect"
          /\ rlog[rbreak].arg = <<rerr, "writer_task">>
          /\ Len(rlog) = rbreak + (IF rpc = "done" THEN 1 ELSE 0)
          /\ (mode = "run" /\ nframes = 0) => Count("handle_msg") = 0
    /\ rerr = "none" => Count("disconnect") = 0

\* run: the first read fails with a decode error
C9_Witness ==
    /\ mode = "run"
    /\ rerr = "decode"
    /\ nframes = 0
    /\ rpc = "done"

\* the loop was left by the shutdown branch: no disconnect, nothing but exit
\* after it
ShutdownPathClean ==
    via = "shutdown" =>
        /\ Count("disconnect") = 0
        /\ rpc \in {"exit", "done"}
        /\ Len(rlog) = rbreak + (IF rpc = "done" THEN 1 ELSE 0)
        /\ rpc = "done" => (rlog[Len(rlog)].call = "exit" /\ Count("exit") = 1)

\* C10: when wait_shutdown has resolved and no frame will arrive, the loop
\* ends by the shutdown branch: no disconnect, no handle_msg after the branch is
\* taken, exit exactly once, and the run returns.
C10_ShutdownPath ==
    /\ []ShutdownPathClean
    /\ (rpc = "select" /\ shutdown /\ stream = "idle")
          ~> (rpc = "done" /\ via = "shutdown")

\* scenario C: run, shutdown resolved, the frame never arrives
C10_Witness ==
    /\ mode = "run"
    /\ rpc = "done"
    /\ via = "shutdown"
    /\ stream = "idle"
    /\ nframes = 0

\* ---------------------------------------------------------------------
\* Properties of the sequential store runs
\* ---------------------------------------------------------------------
Distinct(s) == \A i, j \in 1..Len(s) : i # j => s[i] # s[j]
InsIds(n) == [i \in 1..Len(insHist[n]) |-> insHist[n][i].id]

\* C3 as stated: after N inserts and M < N removes on an identity, each remove
\* naming the id of an inserted record, get_messages returns N - M records of
\* that identity, in insertion order.
C3_AsStated ==
    \A n \in Names :
        (remOk[n] /\ Len(remHist[n]) < Len(insHist[n]))
        => /\ Len(get_messages(cache, n)) = Len(insHist[n]) - Len(remHist[n])
           /\ \A i \in 1..Len(get_messages(cache, n)) : get_messages(cache, n)[i].sock_name = n

\* C3 amended: when the inserted ids of the identity are pairwise distinct and
\* the removes name pairwise distinct ids of records inserted before them,
\* get_messages returns exactly the N - M records whose id no remove named, in
\* insertion order, and no record of another identity.
C3_GetMessagesAfterInsertRemove ==
    \A n \in Names :
        (/\ remOk[n]
         /\ Len(remHist[n]) < Len(insHist[n])
         /\ Distinct(InsIds(n))
         /\ Distinct(remHist[n]))
        => /\ get_messages(cache, n) =
                SelectSeq(insHist[n], LAMBDA x : x.id \notin Range(remHist[n]))
           /\ Len(get_messages(cache, n)) = Len(insHist[n]) - Len(remHist[n])
           /\ \A i \in 1..Len(get_messages(cache, n)) : get_messages(cache, n)[i].sock_name = n

\* two inserts and one remove on one identity, one record left
C3_Witness ==
    \E n \in Names :
        /\ remOk[n] /\ Distinct(InsIds(n)) /\ Distinct(remHist[n])
        /\ Len(insHist[n]) = 2 /\ Len(remHist[n]) = 1
        /\ lastOp = "remove"
        /\ Len(get_messages(cache, n)) = 1

\* C4: the file dump() leaves loads, and the loaded store holds for every
\* identity the same sequence of records (content, ids, order) as the store
\* that was dumped, and no identity the dumped store had no record of.
C4_DumpLoadRoundTrip ==
    /\ load(file).ok
    /\ \A n \in Names : get_messages(load(file).cache, n) = get_messages(cache, n)
    /\ \A n \in DOMAIN load(file).cache : get_messages(cache, n) # <<>>

\* scenario A: insert (A,0,m1), insert (A,1,m2), dump, reload
C4_Witness ==
    /\ lastOp = "load"
    /\ get_messages(cache, NameA) = <<SockMessage(NameA, 0, Msg1), SockMessage(NameA, 1, Msg2)>>

\* the calls of the read loop that carry a message: insert and handle_msg
IsMsgCall(e) == e.call \in {"insert", "handle_msg"}
MsgCalls == SelectSeq(rlog, IsMsgCall)
\* how many of the stored records the replay loop has dispatched
Replayed == Len(startMsgs) - Len(replay)

\* C13: in run_with_message_store the records stored for the connection's
\* identity are all dispatched to handle_msg, in stored order and with their
\* original ids, each exactly once, before the first fresh frame is read,
\* persisted or dispatched.
C13_ReplayBeforeFresh ==
    (mode = "store" /\ rpc # "start") =>
        /\ Len(MsgCalls) >= Replayed
        /\ \A i \in 1..Replayed :
              MsgCalls[i] = Call("handle_msg", startMsgs[i].id, startMsgs[i].message)
        /\ (replay # <<>>) => (nframes = 0 /\ fresh = <<>> /\ Len(MsgCalls) = Replayed)
        /\ Count("handle_msg") = Replayed + Count("insert") - (IF rpc = "handle" THEN 1 ELSE 0)

C13_Witness ==
    /\ mode = "store"
    /\ Len(startMsgs) = 2
    /\ startMsgs[1].id > startMsgs[2].id
    /\ replay = <<>>
    /\ Count("handle_msg") = 3

\* the insert and handle_msg calls made for fresh frames
FreshCalls == SubSeq(MsgCalls, Len(startMsgs) + 1, Len(MsgCalls))

\* C14: the k-th fresh frame (k from 0) is inserted under id start + k, start
\* being the id the replay loop ended with, and its insert has returned before
\* handle_msg is called with the same id and message; the ids of successive
\* fresh frames go up by exactly one.
C14_InsertBeforeDispatch ==
    (mode = "store" /\ rpc # "start" /\ replay = <<>>) =>
        \A j \in 1..Len(FreshCalls) :
            /\ FreshCalls[j].id = OneMoreThanMax(startMsgs) + ((j - 1) \div 2)
            /\ FreshCalls[j].call = IF j % 2 = 1 THEN "insert" ELSE "handle_msg"
            /\ (j % 2 = 0) => FreshCalls[j].arg = FreshCalls[j - 1].arg

C14_Witness ==
    /\ mode = "store"
    /\ startMsgs # <<>>
    /\ Len(FreshCalls) = 4
    /\ FreshCalls[1].arg # FreshCalls[3].arg

\* ---------------------------------------------------------------------
\* run_with_message_store over a file whose I/O calls can fail
\* ---------------------------------------------------------------------
\* a write of b at seek position pos of the file f: a position past the end
\* leaves a hole of zeros
WriteAt(f, pos, b) ==
    [i \in 1..(IF Len(f) > pos + Len(b) THEN Len(f) ELSE pos + Len(b)) |->
        IF i > pos /\ i <= pos + Len(b) THEN b[i - pos]
        ELSE IF i <= Len(f) THEN f[i] ELSE 0]

\* the one call of a dump() of n records that fails, if any: set_len, rewind,
\* one of the three writes of the i-th record, or flush
Faults(n) ==
    {<<"none", 0>>, <<"set_len", 0>>, <<"rewind", 0>>, <<"flush", 0>>}
        \cup {<<w, i>> : w \in {"write_all", "write_u64", "message"}, i \in 1..n}

\* fdstore.rs:25-36 what write_to gets written for the i-th record: the ? of
\* the failing write skips the writes after it (a failed write is taken to
\* have written none of its bytes)
WrittenBy(m, fault, i) ==
    IF fault[2] # i THEN write_to(m)
    ELSE IF fault[1] = "write_all" THEN <<>>
    ELSE IF fault[1] = "write_u64" THEN m.sock_name
    ELSE m.sock_name \o write_u64(m.id)

\* fdstore.rs:115-119 the loops of dump(): unwrap_or_default() drops the
\* error of a record and goes on with the next
RECURSIVE WriteAllFaulty(_, _, _)
WriteAllFaulty(rs, fault, i) ==
    IF rs = <<>> THEN <<>>
    ELSE WrittenBy(Head(rs), fault, i) \o WriteAllFaulty(Tail(rs), fault, i + 1)

\* fdstore.rs:110-121 dump() at seek position pos of the file f: a failed
\* set_len leaves the old bytes, a failed rewind leaves the position
DumpFaulty(f, pos, rs, fault) ==
    LET base == IF fault[1] = "set_len" THEN f ELSE <<>>
        at == IF fault[1] = "rewind" THEN pos ELSE 0
        b == WriteAllFaulty(rs, fault, 1)
    IN [file |-> WriteAt(base, at, b), fpos |-> at + Len(b)]

\* fdstore.rs:120 a failed flush: the last write did or did not reach the file
DumpOutcomes(f, pos, rs, fault) ==
    IF fault[1] = "flush" /\ rs # <<>>
    THEN {DumpFaulty(f, pos, rs, <<"none", 0>>), DumpFaulty(f, pos, rs, <<"message", Len(rs)>>)}
    ELSE {DumpFaulty(f, pos, rs, fault)}

\* MessageStore::load of an empty file, then run_with_message_store
InitIO ==
    /\ InitConn
    /\ mode = "store"
    /\ file = <<>>

\* the dumps of this run that had a failing call
FaultyDumps == {i \in 1..Len(rlog) : rlog[i].call \in {"insert_dump_failed", "remove_dump_failed"}}

\* the calls that may fail in the next dump
MayFail(fault) == fault[1] = "none" \/ Cardinality(FaultyDumps) < MaxFaultyDumps

\* what the read loop and the application did, with the dumps that failed
Done(c, id, arg, fault) ==
    IF fault[1] = "none" THEN <<Call(c, id, arg)>>
    ELSE <<Call(c, id, arg), Call(c \o "_dump_failed", id, fault)>>

\* an insert that undoes the in-memory update when its dump fails
IOInsertRollback(fault) ==
    /\ IOFrame
    /\ rpc = "insert"
    /\ cache' = IF fault[1] = "none" THEN insert_sock_message(cache, SockMessage(name, rid, rmsg))
                ELSE cache
    /\ \E o \in Orders(DOMAIN cache') :
          /\ fault \in Faults(Len(DumpRecords(cache', o)))
          /\ MayFail(fault)
          /\ \E d \in DumpOutcomes(file, fpos, DumpRecords(cache', o), fault) :
                file' = d.file /\ fpos' = d.fpos
    /\ fresh' = Append(fresh, rid)
    /\ rlog' = rlog \o Done("insert", rid, rmsg, fault)
    /\ rpc' = "handle"
    /\ UNCHANGED <<mode, rid, replay, rmsg, shutdown, stream, nframes, startMsgs, via,
                   rerr, rbreak, epoch, usedIds>>

\* connection.rs:149 message_store.insert(name.clone(), id, msg.clone());
\* fdstore.rs:99-121 insert_sock_message, then dump() with its errors dropped
IOInsert(fault) ==
    /\ IOFrame
    /\ rpc = "insert"
    /\ cache' = insert_sock_message(cache, SockMessage(name, rid, rmsg))
    /\ \E o \in Orders(DOMAIN cache') :
          /\ fault \in Faults(Len(DumpRecords(cache', o)))
          /\ MayFail(fault)
          /\ \E d \in DumpOutcomes(file, fpos, DumpRecords(cache', o), fault) :
                file' = d.file /\ fpos' = d.fpos
    /\ fresh' = Append(fresh, rid)
    /\ rlog' = rlog \o Done("insert", rid, rmsg, fault)
    /\ rpc' = "handle"
    /\ UNCHANGED <<mode, rid, replay, rmsg, shutdown, stream, nframes, startMsgs, via,
                   rerr, rbreak, epoch, usedIds>>

\* fdstore.rs:134-137 MessageStore::remove(name, id), called when the handling
\* of a dispatched message is complete: remove_sock_message, then dump()
IORemove(id, fault) ==
    /\ IOFrame
    /\ mode = "store"
    /\ Dispatched(id)
    /\ \E i \in 1..Len(get_messages(cache, name)) : get_messages(cache, name)[i].id = id
    /\ cache' = remove_sock_message(cache, name, id)
    /\ \E o \in Orders(DOMAIN cache') :
          /\ fault \in Faults(Len(DumpRecords(cache', o)))
          /\ MayFail(fault)
          /\ \E d \in DumpOutcomes(file, fpos, DumpRecords(cache', o), fault) :
                file' = d.file /\ fpos' = d.fpos
    /\ rlog' = rlog \o Done("remove", id, <<>>, fault)
    /\ UNCHANGED <<mode, rpc, rid, replay, rmsg, shutdown, stream, nframes, startMsgs, fresh,
                   via, rerr, rbreak, epoch, usedIds>>

NextIO ==
    \/ ConnStart
    \/ ConnReadOk(Msg1)
    \/ \E fault \in Faults(MaxFrames) : IOInsert(fault)
    \/ ConnHandle
    \/ ConnReadErr("eof")
    \/ ConnExit
    \/ \E id \in 0..MaxFrames, fault \in Faults(MaxFrames) : IORemove(id, fault)

SpecIO == InitIO /\ [][NextIO]_vars

\* what the read loop itself did, the application's removes left out
ReaderLog == SelectSeq(rlog, LAMBDA e : e.call \notin {"remove", "remove_dump_failed"})

\* the step is a call of c whose dump had a failing I/O call
FailedDumpStep(c) ==
    /\ Len(rlog') = Len(rlog) + 2
    /\ rlog'[Len(rlog')].call = c \o "_dump_failed"

\* C19: a failing I/O call inside dump (set_len, rewind, a record write or
\* flush) is not fatal: insert and remove still return, the in-memory mapping
\* has the mutation, get_messages returns the mutated sequence, and in
\* run_with_message_store the frame is still dispatched to handle_msg with
\* its id and the read loop goes on.
C19_DumpFailureNotFatal ==
    /\ [](\A i \in 1..Len(ReaderLog) :
            ReaderLog[i].call = "insert_dump_failed" =>
                /\ i > 1
                /\ ReaderLog[i - 1].call = "insert" /\ ReaderLog[i - 1].id = ReaderLog[i].id
                /\ IF i = Len(ReaderLog) THEN rpc = "handle"
                   ELSE ReaderLog[i + 1] =
                            Call("handle_msg", ReaderLog[i].id, ReaderLog[i - 1].arg)
                /\ (i + 1 = Len(ReaderLog)) => (rpc \in {"select", "insert"} /\ via = "none"))
    /\ [][FailedDumpStep("insert") =>
            LET e == rlog'[Len(rlog') - 1]
            IN /\ cache' = insert_sock_message(cache, SockMessage(name, e.id, e.arg))
               /\ get_messages(cache', name) =
                     Append(get_messages(cache, name), SockMessage(name, e.id, e.arg))
               /\ rpc' = "handle"]_vars
    /\ [][FailedDumpStep("remove") =>
            LET e == rlog'[Len(rlog') - 1]
            IN /\ get_messages(cache', name) = Without(get_messages(cache, name), e.id)
               /\ Len(get_messages(cache', name)) < Len(get_messages(cache, name))
               /\ rpc' = rpc]_vars

\* the second fresh frame was inserted with a failing dump and dispatched;
\* the loop is back at its select! and the file is not a dump of the mapping
C19_Witness ==
    /\ Len(ReaderLog) = 5
    /\ ReaderLog[4].call = "insert_dump_failed"
    /\ ReaderLog[5].call = "handle_msg"
    /\ rpc = "select"
    /\ Len(get_messages(cache, name)) = 2
    /\ file \notin DumpFiles(cache)

\* ---------------------------------------------------------------------
\* Properties of the write loop
\* ---------------------------------------------------------------------
\* the positions of the write loop's log where this entry stands
At(tag, k) == {i \in 1..Len(wlog) : wlog[i] = <<tag, k>>}
\* the entries of the log that belong to an envelope
EnvelopeEntries == SelectSeq(wlog, LAMBDA e : e[2] > 0)

\* C16: the write loop handles envelopes strictly one at a time in the order
\* recv() returned them: the stream write, the result report and, on failure,
\* the disconnect reaction of an envelope are all over before recv() is called
\* for the next one, so messages reach the stream, and results are reported,
\* in dequeue order.
C16_OneEnvelopeAtATime ==
    /\ [](/\ \A i \in 1..Len(EnvelopeEntries) - 1 :
               \/ EnvelopeEntries[i + 1][2] = EnvelopeEntries[i][2]
               \/ /\ EnvelopeEntries[i + 1] = <<"recv", EnvelopeEntries[i][2] + 1>>
                  /\ EnvelopeEntries[i] = <<"result_ok", EnvelopeEntries[i][2]>>
          /\ \A k \in 1..wn :
               /\ Cardinality(At("recv", k)) = 1
               /\ \A t \in {"write_ok", "write_err", "result_err", "disconnect", "result_ok"} :
                     \A i \in At(t, k) : \A j \in At("recv", k) : j < i
               /\ WriterDoneWith(k) =>
                     /\ Cardinality(At("write_ok", k)) + Cardinality(At("write_err", k)) = 1
                     /\ Cardinality(At("disconnect", k)) = Cardinality(At("write_err", k))
          /\ Len(wire) = Cardinality({i \in 1..Len(wlog) : wlog[i][1] = "write_ok"}))
    /\ [][wire' # wire => (wpc = "write" /\ wire' = Append(wire, wcur.msg))]_vars

C16_Witness ==
    /\ wn = 3
    /\ wpc = "recv"
    /\ At("write_err", 2) # {}
    /\ Len(wire) = 2
    /\ wire[1] # wire[2]

\* C17: when the write of an envelope's message fails, the error is first
\* reported on that envelope's result channel and only then is the Writer
\* Delegate's disconnect reaction invoked, for that envelope; disconnect is
\* invoked once per failed write and never for an envelope whose write
\* succeeded.
C17_ReportThenDisconnect ==
    \A k \in 1..wn :
        /\ \A d \in At("disconnect", k) :
              \E w \in At("write_err", k), r \in At("result_err", k) : w < r /\ r < d
        /\ At("write_err", k) # {} => /\ At("result_err", k) # {}
                                      /\ results[k] # <<>> /\ results[k][1] = "err"
        /\ Cardinality(At("disconnect", k)) <= 1
        /\ At("write_ok", k) # {} => At("disconnect", k) = {}
        /\ (At("write_err", k) # {} /\ (k < wn \/ wpc \in {"send_ok", "recv", "exit", "done"}))
              => Cardinality(At("disconnect", k)) = 1

C17_Witness ==
    /\ wpc = "done"
    /\ At("disconnect", 1) # {}
    /\ At("write_ok", 2) # {}
    /\ At("disconnect", 3) # {}

\* ---------------------------------------------------------------------
\* The two tasks of one connection: the spawned write loop and run()
\* ---------------------------------------------------------------------
\* connection.rs:61-86 Connection::new, then run() on the same connection
InitTasks ==
    /\ StoreOff
    /\ OpsOff
    /\ ConcOff
    /\ LoadOff
    /\ IOOff
    /\ wpc = "recv"
    /\ wn = 0
    /\ wcur = NoEnvelope
    /\ results = [k \in 1..MaxEnvelopes |-> <<>>]
    /\ wire = <<>>
    /\ wlog = <<>>
    /\ mode = "run"
    /\ rpc = "select"
    /\ rlog = <<>>
    /\ rid = 0
    /\ replay = <<>>
    /\ rmsg = <<>>
    /\ shutdown = FALSE
    /\ stream = "open"
    /\ nframes = 0
    /\ startMsgs = <<>>
    /\ fresh = <<>>
    /\ via = "none"
    /\ rerr = "none"
    /\ rbreak = 0
    /\ epoch = 0
    /\ usedIds = {}

\* the write loop's steps interleaved with the ways run() ends
NextTasks ==
    \/ \E m \in Messages : WriterRecvSome(m)
    \/ WriterRecvNone
    \/ WriterWriteOk
    \/ WriterWriteErr
    \/ WriterDisconnect
    \/ WriterSendOk
    \/ WriterExit
    \/ ConnReadErr("eof")
    \/ EnvShutdown
    \/ ConnShutdown
    \/ ConnExit

SpecTasks == InitTasks /\ [][NextTasks]_vars

\* the runtime keeps polling the spawned task: a stream write ends one way or
\* the other, and the delegate's disconnect and exit reactions return. When
\* recv() returns, and with what, is the delegate's business.
SpecTasksFair ==
    /\ SpecTasks
    /\ WF_vars(WriterWriteOk \/ WriterWriteErr)
    /\ WF_vars(WriterDisconnect)
    /\ WF_vars(WriterSendOk)
    /\ WF_vars(WriterExit)

\* recv() has returned None
RecvNone == At("recv", 0) # {}

\* C18: the write loop ends if and only if recv() returns None: a failed
\* write does not end it (the loop goes back to recv()), nor does the end of
\* the read loop, by shutdown or by disconnect. After None the Writer
\* Delegate's exit reaction is invoked exactly once, after every dequeued
\* envelope has been fully processed, and nothing is pulled afterwards; once
\* recv() has returned None the write task finishes.
C18_WriteLoopEnd ==
    /\ [](/\ (wpc \in {"exit", "done"}) <=> RecvNone
          /\ Cardinality(At("recv", 0)) <= 1
          /\ Cardinality(At("exit", 0)) = (IF wpc = "done" THEN 1 ELSE 0)
          /\ RecvNone =>
                /\ \A i \in At("recv", 0) :
                      /\ \A j \in (i + 1)..Len(wlog) : wlog[j] = <<"exit", 0>>
                      /\ \A k \in 1..wn : \E j \in At("result_ok", k) : j < i
                /\ WriterDoneWith(wn))
    /\ (wpc \in {"write", "disconnect", "send_ok"}) ~> (wpc = "recv")
    /\ RecvNone ~> (wpc = "done")

\* the read loop is over, a write failed and the next envelope was still
\* pulled, and the write loop ended on None
C18_Witness ==
    /\ wpc = "done"
    /\ rpc = "done"
    /\ At("write_err", 1) # {}
    /\ At("recv", 2) # {}

\* C15: remove(connection_id, id) changes nothing but the records of that
\* connection_id whose id matches: the sequences of every other identity, and
\* the content and relative order of the remaining records of the same
\* identity, are unchanged; with no such record, or an unknown identity, the
\* mapping is left exactly as it was.
C15_RemoveFrame ==
    [][\A n \in Names, id \in Ids :
          (lastOp' = "remove" /\ nops' = nops + 1 /\ remHist'[n] = Append(remHist[n], id)) =>
              /\ DOMAIN cache' = DOMAIN cache
              /\ \A n2 \in DOMAIN cache \ {n} : cache'[n2] = cache[n2]
              /\ (n \in DOMAIN cache) => cache'[n] = Without(cache[n], id)
              /\ (n \notin DOMAIN cache \/ id \notin IdsOfSeq(cache[n])) => cache' = cache]_vars

\* a remove has just taken the record of one identity while another
\* identity holds a record with the same id
C15_Witness ==
    \E n \in Names, n2 \in Names :
        /\ n # n2
        /\ lastOp = "remove"
        /\ remHist[n] # <<>> /\ remHist[n2] = <<>>
        /\ Len(insHist[n]) = 1 /\ Len(get_messages(cache, n)) = 0
        /\ Len(get_messages(cache, n2)) = 1
        /\ get_messages(cache, n2)[1].id = remHist[n][1]

\* the records of a mapping all carry a 36-byte connection_id, as key and
\* as field
AllNames36(c) ==
    \A n \in DOMAIN c :
        /\ Len(n) = SOCK_NAME_LEN
        /\ \A i \in 1..Len(c[n]) : Len(c[n][i].sock_name) = SOCK_NAME_LEN

\* C12: insert accepts only a connection_id of exactly 36 bytes; with any
\* other length the call fails with the mapping and the file untouched, so
\* every record held in memory or found in the dump has a 36-byte
\* connection_id.
C12_InsertOnly36ByteName ==
    /\ [](AllNames36(cache) /\ load(file).ok /\ AllNames36(load(file).cache))
    /\ [][lastOp' = "panic" => (cache' = cache /\ file' = file)]_vars

C12_Witness ==
    /\ lastOp = "panic"
    /\ cache # EmptyCache
    /\ file # <<>>

====
